---- MODULE Spec2Model ----
(***************************************************************************)
(* PyNDN2: the wire-encoding cache of pyndn.data.Data and the key naming   *)
(* policy of pyndn.security.identity.IdentityStorage.                      *)
(*                                                                         *)
(* A Data object is modelled by its fields.  The Name and MetaInfo objects *)
(* it owns are modelled by their value and by their own change counter;    *)
(* the ChangeCounter wrappers by the counter value they saw last.  The     *)
(* wire codec is an opaque collaborator: an encoding is the sequence       *)
(* <<format tag, name, metaInfo, content, signature>>.                     *)
(***************************************************************************)
EXTENDS Integers, Sequences, FiniteSets, TLC

\* ---------------------------------------------------------------- bounds
MaxCount == 2
MaxChildCount == 1
StartSeconds == 9
MaxSeconds == 11
MaxKeys == 2

\* Two values of a name, a metaInfo and a content tell a stale encoding from
\* a current one; the code copies and compares them and does nothing else.
Values == {0, 1}
Formats == {"F1", "F2"}
None == "None"
SigByte == "sig"

\* ------------------------------------------------------------- variables
VARIABLES
  name,          \* the Name held by self._name: [val, cc]
  nameSeen,      \* self._name._changeCount (ChangeCounter baseline)
  metaInfo,      \* the MetaInfo held by self._metaInfo: [val, cc]
  metaSeen,      \* self._metaInfo._changeCount
  content,       \* self._content
  defaultWireEncoding,
  defaultWireEncodingFormat,
  getDefaultWireEncodingChangeCount,
  changeCount,
  defaultWireFormat,   \* WireFormat.getDefaultWireFormat()
  since,               \* what was called since the last wireEncode with the
                       \* default format returned
  encoded,             \* what that wireEncode returned
  last,                \* the last completed call and what it returned
  pc,                  \* where a wireEncode that runs in steps stands
  pending,             \* its wireFormat and the wireEncoding it has built
  windowDirty,         \* a field changed since that wireEncoding was built
  cacheRaced,          \* the cache was written from such a wireEncoding
  argument,            \* the object a caller passed to a setter last, and
                       \* whether the Data holds that very object
  keys,                \* the key names an identity storage holds
  defaultKey,          \* its default key name per identity
  defaultCert,         \* the key names it holds a default certificate for
  nowMs,               \* Common.getNowMilliseconds()
  klast                \* the last call on the identity storage

vars == <<name, nameSeen, metaInfo, metaSeen, content, defaultWireEncoding,
          defaultWireEncodingFormat, getDefaultWireEncodingChangeCount,
          changeCount, defaultWireFormat, since, encoded, last,
          pc, pending, windowDirty, cacheRaced, argument, keys, defaultKey,
          defaultCert, nowMs, klast>>

storageVars == <<keys, defaultKey, defaultCert, nowMs, klast>>

dataVars == <<name, nameSeen, metaInfo, metaSeen, content, defaultWireEncoding,
              defaultWireEncodingFormat, getDefaultWireEncodingChangeCount,
              changeCount, defaultWireFormat, since, encoded,
              last, pc, pending, windowDirty, cacheRaced, argument>>

\* ------------------------------------------------------ Blob, SignedBlob
SignedBlob(buf, begin, end) ==
  [isNull |-> FALSE, buf |-> buf, begin |-> begin, end |-> end]

NullSignedBlob ==
  [isNull |-> TRUE, buf |-> <<>>, begin |-> 0, end |-> 0]

\* ------------------------------------------------------------ WireFormat
\* encodeData(data): the bytes and the offsets of the signed portion.
EncodeData(wf, d) ==
  LET bytes == <<wf, d.name.val, d.metaInfo.val, d.content, SigByte>>
  IN  [encoding |-> bytes, begin |-> 1, end |-> Len(bytes) - 1]

\* The well-formed encodings in format wf.
Encodings(wf) ==
  { <<wf, n, m, c, SigByte>> : n \in Values, m \in Values, c \in Values }

\* What wireDecode is given to decode with format wf: an encoding in that
\* format, whole or truncated, or an encoding in another format.
Inputs(wf) ==
  { SubSeq(e, 1, k) : e \in Encodings(wf), k \in 0..5 }
    \cup { <<f, 0, 0, 0, SigByte>> : f \in Formats \ {wf} }

\* ------------------------------------------------------- Name, MetaInfo
\* A newly constructed Name or MetaInfo of value v: nothing has changed it.
NewObject(v) == [val |-> v, cc |-> 0]

\* --------------------------------------------------------- ChangeCounter
\* checkChanged(): compare the target's counter with the one seen last.
CheckChanged(target, seen) ==
  [changed |-> seen # target.cc, seen |-> target.cc]

\* set(target): the wrapped value is replaced, and with it the counter seen.
TrackerSet(target, seen) == target.cc

\* ------------------------------------------------------------------ Data
\* The object self, as a record of its fields.
Self ==
  [name |-> name, nameSeen |-> nameSeen,
   metaInfo |-> metaInfo, metaSeen |-> metaSeen,
   content |-> content,
   defaultWireEncoding |-> defaultWireEncoding,
   defaultWireEncodingFormat |-> defaultWireEncodingFormat,
   getDefaultWireEncodingChangeCount |-> getDefaultWireEncodingChangeCount,
   changeCount |-> changeCount]

\* Write the fields of d back to self.
Store(d) ==
  /\ name' = d.name
  /\ nameSeen' = d.nameSeen
  /\ metaInfo' = d.metaInfo
  /\ metaSeen' = d.metaSeen
  /\ content' = d.content
  /\ defaultWireEncoding' = d.defaultWireEncoding
  /\ defaultWireEncodingFormat' = d.defaultWireEncodingFormat
  /\ getDefaultWireEncodingChangeCount' = d.getDefaultWireEncodingChangeCount
  /\ changeCount' = d.changeCount

\* getChangeCount() that reads the object's own counter only.
GetChangeCount_OwnOnly(d) ==
  [self |-> d, ret |-> d.changeCount]

\* getChangeCount() that counts one change per changed child.
GetChangeCount_PerChild(d) ==
  LET n == CheckChanged(d.name, d.nameSeen)
      m == CheckChanged(d.metaInfo, d.metaSeen)
      d1 == [d EXCEPT !.nameSeen = n.seen,
                      !.metaSeen = m.seen,
                      !.changeCount = @ + (IF n.changed THEN 1 ELSE 0)
                                        + (IF m.changed THEN 1 ELSE 0)]
  IN  [self |-> d1, ret |-> d1.changeCount]

\* getChangeCount(): both trackers are asked; one increment if any changed.
GetChangeCount(d) ==
  LET n == CheckChanged(d.name, d.nameSeen)
      m == CheckChanged(d.metaInfo, d.metaSeen)
      changed == m.changed \/ n.changed
      d1 == [d EXCEPT !.nameSeen = n.seen,
                      !.metaSeen = m.seen,
                      !.changeCount = IF changed THEN @ + 1 ELSE @]
  IN  [self |-> d1, ret |-> d1.changeCount]

\* getDefaultWireEncoding() that drops a stale cache and does not record the
\* change count it saw.
GetDefaultWireEncoding_KeepCount(d) ==
  LET c1 == GetChangeCount(d)
  IN  IF d.getDefaultWireEncodingChangeCount # c1.ret
      THEN LET d1 == [c1.self EXCEPT !.defaultWireEncoding = NullSignedBlob,
                                     !.defaultWireEncodingFormat = None]
           IN  [self |-> d1, ret |-> d1.defaultWireEncoding]
      ELSE [self |-> c1.self, ret |-> c1.self.defaultWireEncoding]

\* getDefaultWireEncoding() that drops a stale encoding and keeps its format.
GetDefaultWireEncoding_KeepFormat(d) ==
  LET c1 == GetChangeCount(d)
  IN  IF d.getDefaultWireEncodingChangeCount # c1.ret
      THEN LET d1 == [c1.self EXCEPT !.defaultWireEncoding = NullSignedBlob]
               c2 == GetChangeCount(d1)
               d2 == [c2.self EXCEPT
                        !.getDefaultWireEncodingChangeCount = c2.ret]
           IN  [self |-> d2, ret |-> d2.defaultWireEncoding]
      ELSE [self |-> c1.self, ret |-> c1.self.defaultWireEncoding]

\* getDefaultWireEncoding(): drop the cache if the change count moved.
GetDefaultWireEncoding(d) ==
  LET c1 == GetChangeCount(d)
  IN  IF d.getDefaultWireEncodingChangeCount # c1.ret
      THEN LET d1 == [c1.self EXCEPT !.defaultWireEncoding = NullSignedBlob,
                                     !.defaultWireEncodingFormat = None]
               c2 == GetChangeCount(d1)
               d2 == [c2.self EXCEPT
                        !.getDefaultWireEncodingChangeCount = c2.ret]
           IN  [self |-> d2, ret |-> d2.defaultWireEncoding]
      ELSE [self |-> c1.self, ret |-> c1.self.defaultWireEncoding]

\* getDefaultWireEncodingFormat(): the raw field.
GetDefaultWireEncodingFormat(d) == d.defaultWireEncodingFormat

\* _setDefaultWireEncoding that does not record the change count.
SetDefaultWireEncoding_NoCount(d, encoding, format) ==
  [d EXCEPT !.defaultWireEncoding = encoding,
            !.defaultWireEncodingFormat = format]

\* _setDefaultWireEncoding(defaultWireEncoding, defaultWireEncodingFormat)
SetDefaultWireEncoding(d, encoding, format) ==
  LET d1 == [d EXCEPT !.defaultWireEncoding = encoding,
                      !.defaultWireEncodingFormat = format]
      c == GetChangeCount(d1)
  IN  [c.self EXCEPT !.getDefaultWireEncodingChangeCount = c.ret]

\* setName that leaves the change count alone.
SetName_NoCount(d, n) ==
  [d EXCEPT !.name = n, !.nameSeen = TrackerSet(n, @)]

\* setName(name): the tracker takes the object, the change count moves on.
SetName(d, n) ==
  [d EXCEPT !.name = n,
            !.nameSeen = TrackerSet(n, @),
            !.changeCount = @ + 1]

\* setMetaInfo that leaves the change count alone.
SetMetaInfo_NoCount(d, m) ==
  [d EXCEPT !.metaInfo = m, !.metaSeen = TrackerSet(m, @)]

\* setMetaInfo(metaInfo)
SetMetaInfo(d, m) ==
  [d EXCEPT !.metaInfo = m,
            !.metaSeen = TrackerSet(m, @),
            !.changeCount = @ + 1]

\* setContent that leaves the change count alone.
SetContent_NoCount(d, c) ==
  [d EXCEPT !.content = c]

\* setContent(content)
SetContent(d, c) ==
  [d EXCEPT !.content = c, !.changeCount = @ + 1]

\* The value of the default argument wireFormat of wireEncode and wireDecode:
\* WireFormat.getDefaultWireFormat() as it was when the def statements ran.
WireFormatAtDefinition == "F1"

\* The attributes of a Data: the fields __init__ assigns and the methods the
\* class defines.
DataAttributes ==
  {"_name", "_metaInfo", "_content", "_defaultWireEncoding",
   "_defaultWireEncodingFormat", "_getDefaultWireEncodingChangeCount",
   "_changeCount", "__init__", "wireEncode", "wireDecode", "getName",
   "getMetaInfo", "getContent", "getDefaultWireEncoding",
   "getDefaultWireEncodingFormat", "setName", "setMetaInfo", "setContent",
   "getChangeCount", "_setDefaultWireEncoding"}

HasAttribute(a) == a \in DataAttributes

\* The object setName hands to the tracker: the argument itself if it is a
\* Name, else a Name made from it.
NameArgument(n, isName) == IF isName THEN n ELSE NewObject(n.val)

\* The object setMetaInfo hands to the tracker: a MetaInfo made from the
\* argument.
MetaInfoArgument(m) == NewObject(m.val)

\* wireEncode, up to the SignedBlob it builds: the cached encoding if there
\* is one in wireFormat, else what encodeData makes of the fields.
\* calls counts the invocations of wireFormat.encodeData.
WireEncodeBuild(d, wf) ==
  LET g1 == GetDefaultWireEncoding(d)
  IN  IF ~g1.ret.isNull /\ GetDefaultWireEncodingFormat(g1.self) = wf
      THEN LET g2 == GetDefaultWireEncoding(g1.self)
           IN  [self |-> g2.self, hit |-> TRUE, ret |-> g2.ret, calls |-> 0]
      ELSE LET e == EncodeData(wf, g1.self)
           IN  [self |-> g1.self, hit |-> FALSE,
                ret |-> SignedBlob(e.encoding, e.begin, e.end), calls |-> 1]

\* wireEncode that never keeps what it built.
WireEncodeStore_Never(d, wireEncoding, wf, dflt) == d

\* wireEncode that keeps what it built whatever the format.
WireEncodeStore_Always(d, wireEncoding, wf, dflt) ==
  SetDefaultWireEncoding(d, wireEncoding, wf)

\* wireEncode, from the SignedBlob it has built: keep it as the default wire
\* encoding if wireFormat is dflt, the process-wide default format.
WireEncodeStore(d, wireEncoding, wf, dflt) ==
  IF wf = dflt
  THEN SetDefaultWireEncoding(d, wireEncoding, dflt)
  ELSE d

\* wireEncode(wireFormat), run as one step.
WireEncode(d, wf, dflt) ==
  LET b == WireEncodeBuild(d, wf)
  IN  IF b.hit
      THEN [self |-> b.self, ret |-> b.ret, calls |-> b.calls]
      ELSE [self |-> WireEncodeStore(b.self, b.ret, wf, dflt),
            ret |-> b.ret, calls |-> b.calls]

\* decodeData(data, input): parse the input front to back, assigning each
\* field through its setter as soon as it is read.
DecodeData(d, input, wf) ==
  LET fail(x) == [self |-> x, ok |-> FALSE, begin |-> 0, end |-> 0]
  IN  IF Len(input) < 2 \/ input[1] # wf THEN fail(d)
      ELSE LET d1 == SetName(d, NewObject(input[2]))
           IN  IF Len(input) < 3 THEN fail(d1)
               ELSE LET d2 == SetMetaInfo(d1, NewObject(input[3]))
                    IN  IF Len(input) < 4 THEN fail(d2)
                        ELSE LET d3 == SetContent(d2, input[4])
                             IN  IF Len(input) < 5 THEN fail(d3)
                                 ELSE [self |-> d3, ok |-> TRUE,
                                       begin |-> 1, end |-> Len(input) - 1]

\* wireDecode without the else branch: another format leaves the cache.
WireDecode_NoElse(d, input, wf, dflt) ==
  LET r == DecodeData(d, input, wf)
  IN  IF ~r.ok
      THEN [self |-> r.self, raised |-> TRUE, begin |-> 0, end |-> 0]
      ELSE IF wf = dflt
           THEN [self |-> SetDefaultWireEncoding(
                            r.self, SignedBlob(input, r.begin, r.end), dflt),
                 raised |-> FALSE, begin |-> r.begin, end |-> r.end]
           ELSE [self |-> r.self,
                 raised |-> FALSE, begin |-> r.begin, end |-> r.end]

\* wireDecode(input, wireFormat), with dflt the process-wide default format.
WireDecode(d, input, wf, dflt) ==
  LET r == DecodeData(d, input, wf)
  IN  IF ~r.ok
      THEN [self |-> r.self, raised |-> TRUE, begin |-> 0, end |-> 0]
      ELSE IF wf = dflt
           THEN [self |-> SetDefaultWireEncoding(
                            r.self, SignedBlob(input, r.begin, r.end), dflt),
                 raised |-> FALSE, begin |-> r.begin, end |-> r.end]
           ELSE [self |-> SetDefaultWireEncoding(r.self, NullSignedBlob, None),
                 raised |-> FALSE, begin |-> r.begin, end |-> r.end]

\* --------------------------------------------------- the record of a call
NoCall ==
  [op |-> "init", wf |-> None, input |-> <<>>,
   blob |-> NullSignedBlob, format |-> None, count |-> 0, calls |-> 0,
   raised |-> FALSE, begin |-> 0, end |-> 0,
   preBlob |-> NullSignedBlob, preFormat |-> None, preCount |-> 0,
   preNameChanged |-> FALSE, preMetaChanged |-> FALSE,
   since |-> "none", prior |-> NullSignedBlob]

\* A call whose return value nothing here looks at.
Call(op) == [NoCall EXCEPT !.op = op]

\* A call of op that reads the cache, observed from the state it starts in.
CacheCall(op) ==
  [NoCall EXCEPT
     !.op = op,
     !.preBlob = GetDefaultWireEncoding(Self).ret,
     !.preFormat = defaultWireEncodingFormat,
     !.since = since,
     !.prior = encoded]

\* A call of getChangeCount, observed from the state it starts in.
CountCall(op) ==
  [NoCall EXCEPT
     !.op = op,
     !.preCount = changeCount,
     !.preNameChanged = CheckChanged(name, nameSeen).changed,
     !.preMetaChanged = CheckChanged(metaInfo, metaSeen).changed]

\* since: "clean" right after a wireEncode with the default format, "inplace"
\* once only in-place changes followed it, "setter" once a setter did.
AfterSetter == IF since = "none" THEN "none" ELSE "setter"

AfterInPlace == IF since = "clean" THEN "inplace" ELSE since

\* ------------------------------------------------------------------ Name
\* A name is a sequence of components, a component a sequence of characters.
NameAppend(n, component) == Append(n, component)

IdentityNames == { << <<"a">> >>, << <<"a">>, <<"b">> >> }

\* ------------------------------------------------------- IdentityStorage
Digit(k) ==
  CASE k = 0 -> "0" [] k = 1 -> "1" [] k = 2 -> "2" [] k = 3 -> "3"
    [] k = 4 -> "4" [] k = 5 -> "5" [] k = 6 -> "6" [] k = 7 -> "7"
    [] k = 8 -> "8" [] k = 9 -> "9"

RECURSIVE Decimal(_)
Decimal(n) ==
  IF n < 10 THEN <<Digit(n)>> ELSE Append(Decimal(n \div 10), Digit(n % 10))

\* repr(math.floor(x)): the digits, followed by ".0" where floor gives a float.
ReprFloor(n, floatFloor) ==
  IF floatFloor THEN Decimal(n) \o <<".", "0">> ELSE Decimal(n)

\* str.replace(".0", ""): every occurrence is removed, left to right.
RECURSIVE RemoveDotZero(_)
RemoveDotZero(str) ==
  IF Len(str) = 0 THEN <<>>
  ELSE IF Len(str) >= 2 /\ str[1] = "." /\ str[2] = "0"
       THEN RemoveDotZero(SubSeq(str, 3, Len(str)))
       ELSE <<str[1]>> \o RemoveDotZero(Tail(str))

\* The names the module identity_storage.py binds: what it imports and the
\* class it defines.  A bare name in a method body is looked up here.
ModuleNames == {"math", "Common", "SecurityException", "IdentityStorage"}

Resolves(id) == id \in ModuleNames

EmptyName == <<>>

\* What a call gives when it raises.
Raise(kind, message) == [raised |-> kind, message |-> message, ret |-> EmptyName]

\* What a call gives when it returns value.
Return(value) == [raised |-> None, message |-> "", ret |-> value]

\* The operations the base class leaves to a subclass.
BaseOperations ==
  {"doesIdentityExist", "addIdentity", "revokeIdentity", "doesKeyExist",
   "addKey", "getKey", "activateKey", "deactivateKey",
   "doesCertificateExist", "addCertificate", "getCertificate",
   "getDefaultIdentity", "getDefaultKeyNameForIdentity",
   "getDefaultCertificateNameForKey", "setDefaultIdentity",
   "setDefaultKeyNameForIdentity", "setDefaultCertificateNameForKey"}

\* The message of the RuntimeError each of them raises.
BaseMessage(op) ==
  CASE op = "addIdentity" -> "doesIdentityExist is not implemented"
    [] op = "revokeIdentity" -> "doesIdentityExist is not implemented"
    [] op = "doesIdentityExist" -> "doesIdentityExist is not implemented"
    [] op = "doesKeyExist" -> "doesKeyExist is not implemented"
    [] op = "addKey" -> "addKey is not implemented"
    [] op = "getKey" -> "getKey is not implemented"
    [] op = "activateKey" -> "activateKey is not implemented"
    [] op = "deactivateKey" -> "deactivateKey is not implemented"
    [] op = "doesCertificateExist" -> "doesCertificateExist is not implemented"
    [] op = "addCertificate" -> "addCertificate is not implemented"
    [] op = "getCertificate" -> "getCertificate is not implemented"
    [] op = "getDefaultIdentity" -> "getDefaultIdentity is not implemented"
    [] op = "getDefaultKeyNameForIdentity" ->
         "getDefaultKeyNameForIdentity is not implemented"
    [] op = "getDefaultCertificateNameForKey" ->
         "getDefaultCertificateNameForKey is not implemented"
    [] op = "setDefaultIdentity" -> "setDefaultIdentity is not implemented"
    [] op = "setDefaultKeyNameForIdentity" ->
         "setDefaultKeyNameForIdentity is not implemented"
    [] op = "setDefaultCertificateNameForKey" ->
         "setDefaultCertificateNameForKey is not implemented"

\* A base class operation that answers instead of raising.
BaseCall_Answers(op) ==
  IF op = "doesKeyExist" THEN Return(EmptyName)
  ELSE Raise("RuntimeError", BaseMessage(op))

\* An operation of BaseOperations, called on the base class.
BaseCall(op) == Raise("RuntimeError", BaseMessage(op))

\* The storage a backend keeps, as a record.
Backend == [keys |-> keys, defaultKey |-> defaultKey, defaultCert |-> defaultCert]

\* doesKeyExist(keyName), as a storage backend answers it.
DoesKeyExist(store, keyName) == keyName \in store

\* getDefaultKeyNameForIdentity(identityName), as a backend answers it.
GetDefaultKeyNameForIdentity(b, identityName) == b.defaultKey[identityName]

\* The name of the certificate a backend holds for keyName.
CertificateName(keyName) ==
  NameAppend(keyName, <<"I", "D", "-", "C", "E", "R", "T">>)

\* getDefaultCertificateNameForKey(keyName), as a backend answers it.
GetDefaultCertificateNameForKey(b, keyName) ==
  IF keyName \in b.defaultCert THEN CertificateName(keyName) ELSE EmptyName

\* getDefaultCertificateNameForIdentity(identityName) on the base class
\* (isBase) or on a backend that implements the two accessors.
GetDefaultCertificateNameForIdentity(b, isBase, identityName) ==
  LET k == IF isBase THEN BaseCall("getDefaultKeyNameForIdentity")
                     ELSE Return(GetDefaultKeyNameForIdentity(b, identityName))
  IN  IF k.raised # None THEN k
      ELSE IF ~Resolves("getDefaultCertificateNameForKey")
      THEN Raise("NameError",
                 "name 'getDefaultCertificateNameForKey' is not defined")
      ELSE Return(GetDefaultCertificateNameForKey(b, k.ret))

\* The key id of the naming policy at the second sec.
KeyId(useKsk, sec) ==
  (IF useKsk THEN <<"K", "S", "K", "-">> ELSE <<"D", "S", "K", "-">>)
    \o Decimal(sec)

\* getNewKeyName(identityName, useKsk) at the time ms.
GetNewKeyName(store, identityName, useKsk, ms, floatFloor) ==
  LET nowString == RemoveDotZero(ReprFloor(ms \div 1000, floatFloor))
      keyIdStr == IF useKsk THEN <<"K", "S", "K", "-">> \o nowString
                            ELSE <<"D", "S", "K", "-">> \o nowString
  IN  IF ~Resolves("Name")
      THEN Raise("NameError", "name 'Name' is not defined")
      ELSE LET keyName == NameAppend(identityName, keyIdStr)
           IN  IF DoesKeyExist(store, keyName)
               THEN Raise("SecurityException", "Key name already exists")
               ELSE Return(keyName)

NoKeyCall ==
  [op |-> "init", receiver |-> None, identityName |-> EmptyName,
   useKsk |-> FALSE, ms |-> 0, raised |-> None, message |-> "",
   ret |-> EmptyName, again |-> FALSE, prevRaised |-> None,
   prevRet |-> EmptyName]

NoPending == [wf |-> None, wireEncoding |-> NullSignedBlob]

NoArgument == [kind |-> "none", shared |-> FALSE]

\* ---------------------------------------------------------------- actions
Init ==
  /\ name \in [val : Values, cc : 0..MaxChildCount]
  /\ nameSeen = name.cc
  /\ metaInfo = NewObject(0)
  /\ metaSeen = 0
  /\ content = 0
  /\ defaultWireEncoding = NullSignedBlob
  /\ defaultWireEncodingFormat = None
  /\ getDefaultWireEncodingChangeCount = 0
  /\ changeCount = 0
  /\ defaultWireFormat = WireFormatAtDefinition
  /\ since = "none"
  /\ encoded = NullSignedBlob
  /\ last = NoCall
  /\ pc = "idle"
  /\ pending = NoPending
  /\ windowDirty = FALSE
  /\ cacheRaced = FALSE
  /\ argument = NoArgument
  /\ keys = {}
  /\ defaultKey = [i \in IdentityNames |-> EmptyName]
  /\ defaultCert = {}
  /\ nowMs = StartSeconds * 1000
  /\ klast = NoKeyCall

DoSetName ==
  \E v \in Values, cc \in 0..MaxChildCount :
    /\ changeCount < MaxCount
    /\ Store(SetName(Self, [val |-> v, cc |-> cc]))
    /\ since' = AfterSetter
    /\ last' = Call("other")
    /\ encoded' = NullSignedBlob
    /\ windowDirty' = (windowDirty \/ pc = "encoding")
    /\ UNCHANGED <<pc, pending, cacheRaced>>
    /\ UNCHANGED storageVars
    /\ UNCHANGED argument
    /\ UNCHANGED defaultWireFormat

DoSetMetaInfo ==
  \E v \in Values :
    /\ changeCount < MaxCount
    /\ Store(SetMetaInfo(Self, NewObject(v)))
    /\ since' = AfterSetter
    /\ last' = Call("other")
    /\ encoded' = NullSignedBlob
    /\ windowDirty' = (windowDirty \/ pc = "encoding")
    /\ UNCHANGED <<pc, pending, cacheRaced>>
    /\ UNCHANGED storageVars
    /\ UNCHANGED argument
    /\ UNCHANGED defaultWireFormat

DoSetContent ==
  \E v \in Values :
    /\ changeCount < MaxCount
    /\ Store(SetContent(Self, v))
    /\ since' = AfterSetter
    /\ last' = Call("other")
    /\ encoded' = NullSignedBlob
    /\ windowDirty' = (windowDirty \/ pc = "encoding")
    /\ UNCHANGED <<pc, pending, cacheRaced>>
    /\ UNCHANGED storageVars
    /\ UNCHANGED argument
    /\ UNCHANGED defaultWireFormat

\* The caller changes the object getName() returned.
MutateName ==
  \E v \in Values :
    /\ name.cc < MaxChildCount
    /\ name' = [val |-> v, cc |-> name.cc + 1]
    /\ since' = AfterInPlace
    /\ encoded' = NullSignedBlob
    /\ last' = Call("other")
    /\ windowDirty' = (windowDirty \/ pc = "encoding")
    /\ UNCHANGED storageVars
    /\ UNCHANGED argument
    /\ UNCHANGED <<pc, pending, cacheRaced>>
    /\ UNCHANGED <<nameSeen, metaInfo, metaSeen, content, defaultWireEncoding,
                   defaultWireEncodingFormat,
                   getDefaultWireEncodingChangeCount, changeCount,
                   defaultWireFormat>>

\* The caller changes the object getMetaInfo() returned.
MutateMetaInfo ==
  \E v \in Values :
    /\ metaInfo.cc < MaxChildCount
    /\ metaInfo' = [val |-> v, cc |-> metaInfo.cc + 1]
    /\ since' = AfterInPlace
    /\ encoded' = NullSignedBlob
    /\ last' = Call("other")
    /\ windowDirty' = (windowDirty \/ pc = "encoding")
    /\ UNCHANGED storageVars
    /\ UNCHANGED argument
    /\ UNCHANGED <<pc, pending, cacheRaced>>
    /\ UNCHANGED <<name, nameSeen, metaSeen, content, defaultWireEncoding,
                   defaultWireEncodingFormat,
                   getDefaultWireEncodingChangeCount, changeCount,
                   defaultWireFormat>>

DoGetChangeCount ==
  LET r == GetChangeCount(Self)
  IN  /\ Store(r.self)
      /\ last' = [CountCall("getChangeCount") EXCEPT !.count = r.ret]
      /\ UNCHANGED <<pc, pending, windowDirty, cacheRaced>>
      /\ UNCHANGED storageVars
      /\ UNCHANGED argument
      /\ UNCHANGED <<defaultWireFormat, since, encoded>>

DoGetDefaultWireEncoding ==
  LET r == GetDefaultWireEncoding(Self)
  IN  /\ Store(r.self)
      /\ last' = [CacheCall("getDefaultWireEncoding") EXCEPT !.blob = r.ret]
      /\ UNCHANGED <<pc, pending, windowDirty, cacheRaced>>
      /\ UNCHANGED storageVars
      /\ UNCHANGED argument
      /\ UNCHANGED <<defaultWireFormat, since, encoded>>

DoGetDefaultWireEncodingFormat ==
  /\ last' = [CacheCall("getDefaultWireEncodingFormat") EXCEPT
                !.format = GetDefaultWireEncodingFormat(Self)]
  /\ UNCHANGED storageVars
  /\ UNCHANGED argument
  /\ UNCHANGED <<pc, pending, windowDirty, cacheRaced>>
  /\ UNCHANGED <<name, nameSeen, metaInfo, metaSeen, content,
                 defaultWireEncoding, defaultWireEncodingFormat,
                 getDefaultWireEncodingChangeCount, changeCount,
                 defaultWireFormat, since, encoded>>

DoWireEncode ==
  \E wf \in Formats :
    LET r == WireEncode(Self, wf, defaultWireFormat)
    IN  /\ Store(r.self)
        /\ last' = [CacheCall("wireEncode") EXCEPT
                      !.wf = wf, !.blob = r.ret, !.calls = r.calls]
        /\ since' = IF wf = defaultWireFormat THEN "clean" ELSE since
        /\ encoded' = IF wf = defaultWireFormat THEN r.ret ELSE encoded
        /\ pc = "idle"
        /\ UNCHANGED <<pc, pending, windowDirty, cacheRaced>>
        /\ UNCHANGED storageVars
        /\ UNCHANGED argument
        /\ UNCHANGED defaultWireFormat

DoWireDecode ==
  \E wf \in Formats : \E input \in Inputs(wf) :
    LET r == WireDecode(Self, input, wf, defaultWireFormat)
    IN  /\ changeCount < MaxCount
        /\ Store(r.self)
        /\ last' = [CacheCall("wireDecode") EXCEPT
                      !.wf = wf, !.raised = r.raised,
                      !.input = IF r.raised THEN <<>> ELSE input,
                      !.begin = r.begin, !.end = r.end]
        /\ since' = "none"
        /\ encoded' = NullSignedBlob
        /\ pc = "idle"
        /\ UNCHANGED <<pc, pending, windowDirty, cacheRaced>>
        /\ UNCHANGED storageVars
        /\ UNCHANGED argument
        /\ UNCHANGED defaultWireFormat

\* WireFormat.setDefaultWireFormat(wireFormat)
SetDefaultWireFormat ==
  \E wf \in Formats :
    /\ wf # defaultWireFormat
    /\ defaultWireFormat' = wf
    /\ since' = "none"
    /\ encoded' = NullSignedBlob
    /\ last' = Call("other")
    /\ UNCHANGED storageVars
    /\ UNCHANGED argument
    /\ UNCHANGED <<pc, pending, windowDirty, cacheRaced>>
    /\ UNCHANGED <<name, nameSeen, metaInfo, metaSeen, content,
                   defaultWireEncoding, defaultWireEncodingFormat,
                   getDefaultWireEncodingChangeCount, changeCount>>

\* wireEncode(wireFormat) of a thread that other threads interleave with:
\* the step up to the SignedBlob it builds.
EncodeBegin ==
  \E wf \in Formats :
    LET b == WireEncodeBuild(Self, wf)
    IN  /\ pc = "idle"
        /\ Store(b.self)
        /\ IF b.hit
           THEN /\ last' = [CacheCall("wireEncode") EXCEPT
                              !.wf = wf, !.blob = b.ret, !.calls = b.calls]
                /\ UNCHANGED <<pc, pending, windowDirty>>
           ELSE /\ pc' = "encoding"
                /\ pending' = [wf |-> wf, wireEncoding |-> b.ret]
                /\ windowDirty' = FALSE
                /\ UNCHANGED last
        /\ UNCHANGED storageVars
        /\ UNCHANGED argument
        /\ UNCHANGED <<defaultWireFormat, since, encoded,
                       cacheRaced>>

\* The step from the SignedBlob to the return.
EncodeFinish ==
  LET d == WireEncodeStore(Self, pending.wireEncoding, pending.wf,
                           defaultWireFormat)
  IN  /\ pc = "encoding"
      /\ Store(d)
      /\ last' = [CacheCall("wireEncode") EXCEPT
                    !.wf = pending.wf, !.blob = pending.wireEncoding,
                    !.calls = 1]
      /\ cacheRaced' = IF pending.wf = defaultWireFormat
                       THEN windowDirty ELSE cacheRaced
      /\ pc' = "idle"
      /\ pending' = NoPending
      /\ windowDirty' = FALSE
      /\ UNCHANGED storageVars
      /\ UNCHANGED argument
      /\ UNCHANGED <<defaultWireFormat, since, encoded>>

Next ==
  \/ DoSetName
  \/ DoSetMetaInfo
  \/ DoSetContent
  \/ MutateName
  \/ MutateMetaInfo
  \/ DoGetChangeCount
  \/ DoGetDefaultWireEncoding
  \/ DoGetDefaultWireEncodingFormat
  \/ DoWireEncode
  \/ DoWireDecode
  \/ SetDefaultWireFormat

Spec == Init /\ [][Next]_vars

\* Threads that share one Data with no lock: one runs wireEncode in steps,
\* the others call setters, change the name or metaInfo in place, and read.
NextRace ==
  \/ EncodeBegin
  \/ EncodeFinish
  \/ DoSetName
  \/ DoSetMetaInfo
  \/ DoSetContent
  \/ MutateName
  \/ MutateMetaInfo
  \/ DoGetChangeCount
  \/ DoGetDefaultWireEncoding

SpecRace == Init /\ [][NextRace]_vars

\* A caller passes an object to setName: a Name, or something a Name is
\* made from.
DoSetNameOf ==
  \E v \in Values, cc \in 0..MaxChildCount, isName \in BOOLEAN :
    /\ changeCount < MaxCount
    /\ isName \/ cc = 0
    /\ Store(SetName(Self, NameArgument([val |-> v, cc |-> cc], isName)))
    /\ argument' = [kind |-> "name", shared |-> isName]
    /\ since' = AfterSetter
    /\ last' = Call("other")
    /\ encoded' = NullSignedBlob
    /\ UNCHANGED <<pc, pending, windowDirty, cacheRaced>>
    /\ UNCHANGED storageVars
    /\ UNCHANGED defaultWireFormat

\* A caller passes a MetaInfo to setMetaInfo.
DoSetMetaInfoOf ==
  \E v \in Values, cc \in 0..MaxChildCount :
    /\ changeCount < MaxCount
    /\ Store(SetMetaInfo(Self, MetaInfoArgument([val |-> v, cc |-> cc])))
    /\ argument' = [kind |-> "metaInfo", shared |-> FALSE]
    /\ since' = AfterSetter
    /\ last' = Call("other")
    /\ encoded' = NullSignedBlob
    /\ UNCHANGED <<pc, pending, windowDirty, cacheRaced>>
    /\ UNCHANGED storageVars
    /\ UNCHANGED defaultWireFormat

\* The caller changes the object it passed to the setter.
MutateArgument ==
  \E v \in Values :
    /\ argument.kind # "none"
    /\ IF argument.shared
       THEN /\ name.cc < MaxChildCount
            /\ name' = [val |-> v, cc |-> name.cc + 1]
       ELSE UNCHANGED name
    /\ since' = AfterInPlace
    /\ encoded' = NullSignedBlob
    /\ last' = [CountCall("mutateArgument") EXCEPT
                  !.count = GetChangeCount(Self).ret]
    /\ UNCHANGED storageVars
    /\ UNCHANGED <<pc, pending, windowDirty, cacheRaced, argument>>
    /\ UNCHANGED <<nameSeen, metaInfo, metaSeen, content, defaultWireEncoding,
                   defaultWireEncodingFormat,
                   getDefaultWireEncodingChangeCount, changeCount,
                   defaultWireFormat>>

\* data.setSignatureInfo(signatureInfo): the attribute is looked up first.
DoSetSignatureInfo ==
  /\ last' = [CountCall("setSignatureInfo") EXCEPT
                !.raised = ~HasAttribute("setSignatureInfo")]
  /\ UNCHANGED storageVars
  /\ UNCHANGED <<pc, pending, windowDirty, cacheRaced, argument>>
  /\ UNCHANGED <<name, nameSeen, metaInfo, metaSeen, content,
                 defaultWireEncoding, defaultWireEncodingFormat,
                 getDefaultWireEncodingChangeCount, changeCount,
                 defaultWireFormat, since, encoded>>

\* wireEncode() with the argument wireFormat left out.
DoWireEncodeOmitted ==
  LET wf == WireFormatAtDefinition
      r == WireEncode(Self, wf, defaultWireFormat)
  IN  /\ Store(r.self)
      /\ last' = [CacheCall("wireEncode()") EXCEPT
                    !.wf = wf, !.blob = r.ret, !.calls = r.calls]
      /\ since' = IF wf = defaultWireFormat THEN "clean" ELSE since
      /\ encoded' = IF wf = defaultWireFormat THEN r.ret ELSE encoded
      /\ UNCHANGED <<pc, pending, windowDirty, cacheRaced, argument>>
      /\ UNCHANGED storageVars
      /\ UNCHANGED defaultWireFormat

\* wireDecode(input) with the argument wireFormat left out; input is an
\* encoding in some format.
DoWireDecodeOmitted ==
  \E f \in Formats : \E input \in Encodings(f) :
    LET wf == WireFormatAtDefinition
        r == WireDecode(Self, input, wf, defaultWireFormat)
    IN  /\ changeCount < MaxCount
        /\ Store(r.self)
        /\ last' = [CacheCall("wireDecode()") EXCEPT
                      !.wf = wf, !.raised = r.raised, !.input = input,
                      !.begin = r.begin, !.end = r.end]
        /\ argument' = NoArgument
        /\ since' = "none"
        /\ encoded' = NullSignedBlob
        /\ UNCHANGED <<pc, pending, windowDirty, cacheRaced>>
        /\ UNCHANGED storageVars
        /\ UNCHANGED defaultWireFormat

\* A caller that holds on to what it passed in, leaves wireFormat out, and
\* asks for the signature information.
NextCaller ==
  \/ DoSetNameOf
  \/ DoSetMetaInfoOf
  \/ MutateArgument
  \/ DoSetSignatureInfo
  \/ DoWireEncodeOmitted
  \/ DoWireDecodeOmitted
  \/ SetDefaultWireFormat
  \/ DoGetChangeCount
  \/ DoGetDefaultWireEncoding

SpecCaller == Init /\ [][NextCaller]_vars

\* getNewKeyName(identityName, useKsk) on a storage backend.
DoGetNewKeyName ==
  \E identityName \in IdentityNames, useKsk \in BOOLEAN,
     floatFloor \in BOOLEAN :
    LET r == GetNewKeyName(keys, identityName, useKsk, nowMs, floatFloor)
        again == /\ klast.op = "getNewKeyName"
                 /\ klast.identityName = identityName
                 /\ klast.useKsk = useKsk
                 /\ klast.ms \div 1000 = nowMs \div 1000
    IN  /\ klast' = [op |-> "getNewKeyName", receiver |-> "backend",
                     identityName |-> identityName,
                     useKsk |-> useKsk, ms |-> nowMs,
                     raised |-> r.raised, message |-> r.message,
                     ret |-> r.ret, again |-> again,
                     prevRaised |-> IF again THEN klast.raised ELSE None,
                     prevRet |-> IF again THEN klast.ret ELSE EmptyName]
        /\ UNCHANGED <<keys, defaultKey, defaultCert, nowMs>>
        /\ UNCHANGED dataVars

\* addKey(keyName, keyType, publicKeyDer) on a backend, with a name the
\* naming policy gives at this time.
DoAddKey ==
  \E identityName \in IdentityNames, useKsk \in BOOLEAN :
    LET keyName == NameAppend(identityName, KeyId(useKsk, nowMs \div 1000))
    IN  /\ keyName \notin keys
        /\ Cardinality(keys) < MaxKeys
        /\ keys' = keys \cup {keyName}
        /\ klast' = [NoKeyCall EXCEPT !.op = "addKey",
                                      !.receiver = "backend",
                                      !.ret = keyName]
        /\ UNCHANGED <<defaultKey, defaultCert, nowMs>>
        /\ UNCHANGED dataVars

\* Half a second passes.
Tick ==
  /\ nowMs + 500 < (MaxSeconds + 1) * 1000
  /\ nowMs' = nowMs + 500
  /\ UNCHANGED <<keys, defaultKey, defaultCert, klast>>
  /\ UNCHANGED dataVars

NextStorage ==
  \/ DoGetNewKeyName
  \/ DoAddKey
  \/ Tick

SpecStorage == Init /\ [][NextStorage]_vars

\* setDefaultKeyNameForIdentity(keyName) on a backend.
DoSetDefaultKeyNameForIdentity ==
  \E keyName \in keys :
    LET identityName == SubSeq(keyName, 1, Len(keyName) - 1)
    IN  /\ defaultKey[identityName] # keyName
        /\ defaultKey' = [defaultKey EXCEPT ![identityName] = keyName]
        /\ klast' = [NoKeyCall EXCEPT !.op = "setDefaultKeyNameForIdentity",
                                      !.receiver = "backend",
                                      !.identityName = identityName]
        /\ UNCHANGED <<keys, defaultCert, nowMs>>
        /\ UNCHANGED dataVars

\* setDefaultCertificateNameForKey(keyName, certificateName) on a backend.
DoSetDefaultCertificateNameForKey ==
  \E keyName \in keys \ defaultCert :
    /\ defaultCert' = defaultCert \cup {keyName}
    /\ klast' = [NoKeyCall EXCEPT !.op = "setDefaultCertificateNameForKey",
                                  !.receiver = "backend"]
    /\ UNCHANGED <<keys, defaultKey, nowMs>>
    /\ UNCHANGED dataVars

\* getDefaultCertificateNameForIdentity(identityName) on the base class or
\* on a backend.
DoGetDefaultCertificateNameForIdentity ==
  \E identityName \in IdentityNames, isBase \in BOOLEAN :
    LET r == GetDefaultCertificateNameForIdentity(Backend, isBase,
                                                  identityName)
    IN  /\ klast' = [NoKeyCall EXCEPT
                       !.op = "getDefaultCertificateNameForIdentity",
                       !.receiver = IF isBase THEN "base" ELSE "backend",
                       !.identityName = identityName,
                       !.raised = r.raised, !.message = r.message,
                       !.ret = r.ret]
        /\ UNCHANGED <<keys, defaultKey, defaultCert, nowMs>>
        /\ UNCHANGED dataVars

\* An operation the base class leaves to a subclass, called on the base
\* class with some argument.
DoBaseCall ==
  \E op \in BaseOperations, identityName \in IdentityNames :
    LET r == BaseCall(op)
    IN  /\ klast' = [NoKeyCall EXCEPT
                       !.op = op, !.receiver = "base",
                       !.identityName = identityName,
                       !.raised = r.raised, !.message = r.message,
                       !.ret = r.ret]
        /\ UNCHANGED <<keys, defaultKey, defaultCert, nowMs>>
        /\ UNCHANGED dataVars

NextContract ==
  \/ DoAddKey
  \/ DoSetDefaultKeyNameForIdentity
  \/ DoSetDefaultCertificateNameForKey
  \/ DoGetDefaultCertificateNameForIdentity
  \/ DoBaseCall

SpecContract == Init /\ [][NextContract]_vars

\* ----------------------------------------------------------------- claims
\* The encoding of the current field values in format wf.
CurrentEncoding(wf) ==
  LET e == EncodeData(wf, Self)
  IN  SignedBlob(e.encoding, e.begin, e.end)

\* What getDefaultWireEncoding() would return now.
VisibleEncoding == GetDefaultWireEncoding(Self).ret

EncodeWithDefault ==
  last.op = "wireEncode" /\ last.wf = defaultWireFormat

EncodeWithOther ==
  last.op = "wireEncode" /\ last.wf # defaultWireFormat

\* C1: a wireEncode with the default format that follows another one, with
\* no setter call and no in-place change of the name or metaInfo in between,
\* returns the same encoding and does not invoke encodeData.
C1_RepeatedEncodeUsesCache ==
  (EncodeWithDefault /\ last.since = "clean")
    => (last.blob = last.prior /\ last.calls = 0)

C1_Witness ==
  EncodeWithDefault /\ last.since = "clean" /\ ~last.blob.isNull

\* C2: once a wireEncode with the default format has filled the cache and a
\* setter was called after it, the next wireEncode with the default format
\* invokes encodeData exactly once and returns the encoding of the fields as
\* the setters left them.
C2_SetterForcesOneEncode ==
  (EncodeWithDefault /\ last.since = "setter")
    => (last.calls = 1 /\ last.blob = CurrentEncoding(defaultWireFormat))

C2_Witness ==
  EncodeWithDefault /\ last.since = "setter" /\ last.calls = 1

\* C3: once a wireEncode with the default format has filled the cache and
\* the name or metaInfo was changed in place (no setter called), the next
\* getDefaultWireEncoding() returns a null blob and the next wireEncode with
\* the default format invokes encodeData.
C3_InPlaceChangeInvalidates ==
  /\ (last.op = "getDefaultWireEncoding" /\ last.since = "inplace")
       => last.blob.isNull
  /\ (EncodeWithDefault /\ last.since = "inplace")
       => (last.calls = 1 /\ last.blob = CurrentEncoding(defaultWireFormat))

C3_Witness ==
  /\ last.op = "getDefaultWireEncoding"
  /\ last.since = "inplace"
  /\ last.preFormat # None

\* C4: whenever getDefaultWireEncoding() returns a non-null blob, the blob is
\* the encoding of the current name, metaInfo and content in the format
\* getDefaultWireEncodingFormat() reports.
C4_VisibleCacheIsCurrent ==
  ~VisibleEncoding.isNull
    => /\ defaultWireEncodingFormat \in Formats
       /\ VisibleEncoding = CurrentEncoding(defaultWireEncodingFormat)

C4_Witness ==
  ~VisibleEncoding.isNull /\ changeCount >= 2 /\ content # 0

\* C5 as stated: a wireEncode with a format that is not the default invokes
\* encodeData, returns the fresh encoding, and leaves both what
\* getDefaultWireEncoding() returns and what getDefaultWireEncodingFormat()
\* returns as they were before the call.
C5_AsStated ==
  EncodeWithOther
    => /\ last.calls = 1
       /\ last.blob = CurrentEncoding(last.wf)
       /\ VisibleEncoding = last.preBlob
       /\ defaultWireEncodingFormat = last.preFormat

\* C5 amended: a wireEncode with a format that is not the default returns
\* the encoding of the current fields in that format, invoking encodeData
\* unless a valid cached encoding in that very format exists; it leaves what
\* getDefaultWireEncoding() returns as it was; getDefaultWireEncodingFormat()
\* is as it was when that encoding is non-null and None when it is null.
\* Every wireEncode returns bytes in the format it was asked for.
C5_OtherFormatLeavesCache ==
  /\ EncodeWithOther
       => /\ last.blob = CurrentEncoding(last.wf)
          /\ (last.calls = 0) = (~last.preBlob.isNull /\ last.preFormat = last.wf)
          /\ last.calls \in {0, 1}
          /\ VisibleEncoding = last.preBlob
          /\ defaultWireEncodingFormat =
               (IF last.preBlob.isNull THEN None ELSE last.preFormat)
  /\ last.op = "wireEncode" => last.blob.buf[1] = last.wf

C5_Witness ==
  EncodeWithOther /\ ~last.preBlob.isNull /\ last.calls = 1

\* C6: after a successful wireDecode with the default format the cache holds
\* the input bytes with the offsets the codec returned, the cache format is
\* the default format, the recorded change count is the change count with
\* every change of the decode counted, and a wireEncode with the default
\* format returns the input without invoking encodeData.
C6_DefaultDecodeCachesInput ==
  (last.op = "wireDecode" /\ ~last.raised /\ last.wf = defaultWireFormat)
    => /\ defaultWireEncoding = SignedBlob(last.input, last.begin, last.end)
       /\ defaultWireEncodingFormat = defaultWireFormat
       /\ getDefaultWireEncodingChangeCount = changeCount
       /\ GetChangeCount(Self).ret = changeCount
       /\ LET w == WireEncode(Self, defaultWireFormat, defaultWireFormat)
          IN  w.ret.buf = last.input /\ w.calls = 0

C6_Witness ==
  /\ last.op = "wireDecode" /\ ~last.raised /\ last.wf = defaultWireFormat
  /\ last.input[4] # 0

\* C7: after a successful wireDecode with a format that is not the default,
\* getDefaultWireEncoding() returns a null blob, the format is None, and a
\* wireEncode with the default format invokes encodeData.
C7_OtherDecodeClearsCache ==
  (last.op = "wireDecode" /\ ~last.raised /\ last.wf # defaultWireFormat)
    => /\ VisibleEncoding.isNull
       /\ GetDefaultWireEncodingFormat(Self) = None
       /\ WireEncode(Self, defaultWireFormat, defaultWireFormat).calls = 1

C7_Witness ==
  /\ last.op = "wireDecode" /\ ~last.raised /\ last.wf # defaultWireFormat
  /\ ~last.preBlob.isNull

\* C8: getChangeCount() raises the change count by 1 when the name tracker
\* or the metaInfo tracker (or both) reports a change and by 0 when neither
\* does; a second call right after it returns the same value.
C8_OneIncrementPerBatch ==
  last.op = "getChangeCount"
    => /\ last.count = last.preCount +
            (IF last.preNameChanged \/ last.preMetaChanged THEN 1 ELSE 0)
       /\ changeCount = last.count
       /\ GetChangeCount(Self).ret = last.count

C8_Witness ==
  last.op = "getChangeCount" /\ last.preNameChanged /\ last.preMetaChanged

\* The cache passes for valid and is not the encoding of the current fields.
StaleCache ==
  /\ ~VisibleEncoding.isNull
  /\ VisibleEncoding # CurrentEncoding(defaultWireEncodingFormat)

\* C9: with threads interleaving, the cache can come to hold an encoding of
\* old field values under a current change count, and a later wireEncode
\* with the default format then returns it without invoking encodeData; this
\* happens only when a field changed between the build of the encoding and
\* the cache write, so never when every operation runs as one step.
C9_StaleOnlyByRace ==
  /\ StaleCache => cacheRaced
  /\ (EncodeWithDefault /\ last.blob # CurrentEncoding(defaultWireFormat))
       => cacheRaced

C9_Witness ==
  /\ StaleCache
  /\ EncodeWithDefault
  /\ last.calls = 0
  /\ last.blob # CurrentEncoding(defaultWireFormat)

DigitValue(ch) == CHOOSE k \in 0..9 : Digit(k) = ch

RECURSIVE ParseDecimal(_)
ParseDecimal(str) ==
  IF Len(str) = 0 THEN 0
  ELSE 10 * ParseDecimal(SubSeq(str, 1, Len(str) - 1)) + DigitValue(str[Len(str)])

IsDecimal(str) ==
  /\ Len(str) > 0
  /\ \A i \in 1..Len(str) : \E k \in 0..9 : str[i] = Digit(k)

\* C10: getNewKeyName returns identityName with one more component, "KSK-"
\* or "DSK-" (by useKsk) followed by the unix seconds in decimal; it raises
\* SecurityException exactly when the store holds that name already.
C10_NewKeyName ==
  klast.op = "getNewKeyName"
    => LET id == klast.identityName
           tag == IF klast.useKsk THEN <<"K", "S", "K", "-">>
                                  ELSE <<"D", "S", "K", "-">>
       IN  IF klast.raised = None
           THEN /\ Len(klast.ret) = Len(id) + 1
                /\ SubSeq(klast.ret, 1, Len(id)) = id
                /\ LET c == klast.ret[Len(id) + 1]
                       digits == SubSeq(c, 5, Len(c))
                   IN  /\ SubSeq(c, 1, 4) = tag
                       /\ IsDecimal(digits)
                       /\ ParseDecimal(digits) * 1000 <= klast.ms
                       /\ klast.ms < (ParseDecimal(digits) + 1) * 1000
                       /\ digits[1] = "0" => Len(digits) = 1
                /\ klast.ret \notin keys
           ELSE /\ klast.raised = "SecurityException"
                /\ \E k \in keys :
                     /\ Len(k) = Len(id) + 1
                     /\ SubSeq(k, 1, Len(id)) = id
                     /\ SubSeq(k[Len(k)], 1, 4) = tag
                     /\ LET digits == SubSeq(k[Len(k)], 5, Len(k[Len(k)]))
                        IN  /\ ParseDecimal(digits) * 1000 <= klast.ms
                            /\ klast.ms < (ParseDecimal(digits) + 1) * 1000

\* The store holds no key under the name the naming policy gives for the
\* last getNewKeyName call.
NoKeyToCollideWith ==
  NameAppend(klast.identityName, KeyId(klast.useKsk, klast.ms \div 1000))
    \notin keys

\* C11: as stated, two getNewKeyName calls in the same second for the same
\* identity and the same useKsk, with no addKey in between and no key of
\* that name in the store, both return the same name and neither reports a
\* collision.
C11_AsStated ==
  (klast.op = "getNewKeyName" /\ klast.again /\ NoKeyToCollideWith)
    => /\ klast.raised = None
       /\ klast.prevRaised = None
       /\ klast.ret = klast.prevRet
       /\ klast.ret # EmptyName

\* C12: as stated, getDefaultCertificateNameForIdentity(identityName) on a
\* backend that implements the two accessors returns what
\* getDefaultCertificateNameForKey(getDefaultKeyNameForIdentity(identityName))
\* returns.
C12_AsStated ==
  (klast.op = "getDefaultCertificateNameForIdentity"
     /\ klast.receiver = "backend")
    => /\ klast.raised = None
       /\ klast.ret =
            GetDefaultCertificateNameForKey(Backend,
              GetDefaultKeyNameForIdentity(Backend, klast.identityName))

\* C13: as stated, a Data has signature information that setSignatureInfo
\* replaces, and the call raises the change count by one.
C13_AsStated ==
  last.op = "setSignatureInfo"
    => /\ ~last.raised
       /\ changeCount = last.preCount + 1

\* C14: as stated, once setName or setMetaInfo has returned, a change the
\* caller makes to the object it passed in changes neither the Data's name
\* or metaInfo nor the change count getChangeCount() returns.
C14_AsStated ==
  [][MutateArgument
       => /\ name' = name
          /\ metaInfo' = metaInfo
          /\ GetChangeCount(Self)'.ret = GetChangeCount(Self).ret]_vars

\* C15: as stated, wireEncode() with wireFormat left out encodes with the
\* default wire format of the time of the call and stores the result as
\* the default wire encoding; wireDecode(input) with wireFormat left out
\* decodes an input in that format and caches it.
C15_AsStated ==
  /\ last.op = "wireEncode()"
       => /\ last.blob = CurrentEncoding(defaultWireFormat)
          /\ defaultWireEncoding = last.blob
          /\ defaultWireEncodingFormat = defaultWireFormat
  /\ (last.op = "wireDecode()" /\ last.input[1] = defaultWireFormat)
       => /\ ~last.raised
          /\ defaultWireEncoding.buf = last.input
          /\ defaultWireEncodingFormat = defaultWireFormat

\* C16: every operation the base class leaves to a subclass raises
\* RuntimeError when called on the base class, whatever the argument; it
\* returns no value and changes nothing a storage holds.
C16_BaseRaises ==
  /\ [](klast.receiver = "base" /\ klast.op \in BaseOperations
          => /\ klast.raised = "RuntimeError"
             /\ klast.ret = EmptyName)
  /\ [][DoBaseCall => UNCHANGED <<keys, defaultKey, defaultCert>>]_vars

C16_Witness ==
  /\ klast.receiver = "base"
  /\ klast.op = "addIdentity"
  /\ klast.raised = "RuntimeError"
  /\ klast.message = "doesIdentityExist is not implemented"
  /\ keys # {}

\* A call of setName, setMetaInfo or setContent.
SetterStep ==
  /\ last'.op = "other"
  /\ (DoSetName \/ DoSetMetaInfo \/ DoSetContent)

\* C17: the change count never decreases: the field never does, and what
\* getChangeCount() returns is the field as the call leaves it and never
\* less than the field was; a setter call raises the field, and makes
\* getChangeCount() return more than it returned right before the call; the
\* change count recorded for the cache is never greater than the change
\* count, and equals it right after getDefaultWireEncoding(), a wireEncode
\* with the default format or a wireDecode has returned.
C17_CountsOrdered ==
  /\ [](/\ getDefaultWireEncodingChangeCount <= changeCount
        /\ last.op = "getChangeCount"
             => (last.count = changeCount /\ last.count >= last.preCount)
        /\ (\/ last.op = "getDefaultWireEncoding"
            \/ EncodeWithDefault
            \/ (last.op = "wireDecode" /\ ~last.raised))
             => /\ getDefaultWireEncodingChangeCount = changeCount
                /\ GetChangeCount(Self).ret = changeCount)
  /\ [][/\ changeCount' >= changeCount
        /\ SetterStep => changeCount' > changeCount
        /\ (SetterStep /\ last.op = "getChangeCount")
             => GetChangeCount(Self)'.ret > last.count]_vars

C17_Witness ==
  /\ last.op = "getDefaultWireEncoding"
  /\ last.since = "setter"
  /\ changeCount = MaxCount
  /\ name.cc # 0

\* C18: the stored default wire encoding is null exactly when the stored
\* format is None; at construction both are so, and a wireEncode then
\* invokes encodeData; an encoding that is stored is stored with the format
\* that is the default wire format at that time, and is in that format.
C18_NullIffNoFormat ==
  /\ [](/\ defaultWireEncoding.isNull = (defaultWireEncodingFormat = None)
        /\ ~defaultWireEncoding.isNull
             => defaultWireEncoding.buf[1] = defaultWireEncodingFormat
        /\ last.op = "init"
             => /\ defaultWireEncoding.isNull
                /\ \A wf \in Formats :
                     WireEncode(Self, wf, defaultWireFormat).calls = 1)
  /\ [][(defaultWireEncoding' # defaultWireEncoding
           /\ ~defaultWireEncoding'.isNull)
          => defaultWireEncodingFormat' = defaultWireFormat']_vars

C18_Witness ==
  /\ ~defaultWireEncoding.isNull
  /\ defaultWireEncodingFormat = "F2"
  /\ defaultWireFormat = "F1"
====
